---- MODULE Spec2Model ----
(***************************************************************************)
(* Model of win_notifer.py: a script that checks the platform, validates   *)
(* its in-source configuration, and then loops forever: play a sound,      *)
(* print a "waiting" line, sleep INTERVAL_SECONDS.                         *)
(*                                                                         *)
(* Console lines are modelled as tokens, one per print statement.  Time is *)
(* counted in ticks; INTERVAL_SECONDS is a number of ticks.                *)
(*                                                                         *)
(* Fault model: the sound primitive may raise RuntimeError (what winsound   *)
(* raises when a sound cannot be played) or another Exception subclass     *)
(* (ValueError), the "waiting" print may raise OSError, time.sleep may     *)
(* raise OverflowError, and Ctrl-C raises KeyboardInterrupt at any         *)
(* statement inside the main try block.  The prints at the head of         *)
(* play_windows_notification and inside the except/finally clauses are     *)
(* taken to succeed.                                                       *)
(***************************************************************************)
EXTENDS Naturals, Integers, Sequences, FiniteSets, TLC

\* ---- bounds of the model ------------------------------------------------
\* largest positive INTERVAL_SECONDS tried (ticks)
MaxInterval == 2
\* longest time a blocking sound call takes (ticks)
MaxPlayTicks == 2
\* number of loop iterations explored
MaxIter == 2

VARIABLES
    platform,          \* platform.system()
    INTERVAL_SECONDS,  \* [kind, val]: a number of ticks, or a non-number
    USE_ALIAS,
    USE_WAV,
    configured,        \* lines 15-28 have been executed
    pc,                \* position of the script
    exc,               \* exception in flight ("none" if none)
    caught,            \* exception bound by a top-level except clause
    topCaught,         \* number of times a top-level except clause ran
    output,            \* console lines printed so far
    exitStatus,        \* process exit status, -1 while running
    clock,             \* elapsed ticks
    starts,            \* clock at the start of each playback attempt
    calls,             \* sound primitive invoked by each attempt
    outcomes,          \* how each primitive invocation ended
    sleeps             \* completed suspensions

vars == <<platform, INTERVAL_SECONDS, USE_ALIAS, USE_WAV, configured, pc, exc,
          caught, topCaught, output, exitStatus, clock, starts, calls,
          outcomes, sleeps>>

config == <<INTERVAL_SECONDS, USE_ALIAS, USE_WAV>>

\* ---- helpers ------------------------------------------------------------
Num(v) == [kind |-> "num", val |-> v]

NonNumeric == [kind |-> "str", val |-> 0]

Platforms == {"Windows", "Linux"}

IntervalValues == {NonNumeric} \cup {Num(v) : v \in {-1, 0} \cup (1..MaxInterval)}

RECURSIVE Count(_, _)
Count(m, s) == IF s = << >> THEN 0
               ELSE (IF Head(s) = m THEN 1 ELSE 0) + Count(m, Tail(s))

Has(m, s) == \E i \in 1..Len(s) : s[i] = m

Last(s) == s[Len(s)]

LoopPcs == {"play", "dispatch", "wait_print", "sleep"}

DonePcs == {"except", "finally", "exited"}

\* ---- pure parts of the script ------------------------------------------
\* faulty variant: the platform test left out
SupportedAnywhere(p) == TRUE

\* line 7: platform.system() != "Windows" refuses to start
Supported(p) == p = "Windows"

\* line 32: isinstance(INTERVAL_SECONDS, (int, float))
IsNumber(x) == x.kind = "num"

\* faulty variant: "< 0" written for "<= 0"
InvalidNegativeOnly(x) == ~IsNumber(x) \/ x.val < 0

\* line 32: the condition under which the script refuses the configuration
Invalid(x) == ~IsNumber(x) \/ x.val <= 0

\* faulty variant: the wave file tested before the alias
SelectPrimitiveWavFirst(alias, wav) ==
    IF wav THEN "wav" ELSE IF alias THEN "alias" ELSE "beep"

\* lines 42-51: if USE_ALIAS / elif USE_WAV / else
SelectPrimitive(alias, wav) ==
    IF alias THEN "alias" ELSE IF wav THEN "wav" ELSE "beep"

\* lines 43, 46, 50: the status line naming the resource
UsingLine(prim) ==
    CASE prim = "alias" -> "using_alias_SOUND_ALIAS"
      [] prim = "wav"   -> "using_wav_WAV_FILE"
      [] prim = "beep"  -> "using_beep_FREQUENCY_DURATION"

\* lines 44, 48, 51: SND_ALIAS and Beep block the caller, SND_ASYNC returns
\* at once
Blocking(prim) == prim # "wav"

PlayTicks(prim) == IF Blocking(prim) THEN 0..MaxPlayTicks ELSE {0}

\* what the sound primitive may raise: RuntimeError from winsound, ValueError
\* for an argument it rejects
PlaybackErrors == {"RuntimeError", "ValueError"}

\* Python's exception hierarchy, as far as the script's handlers see it
IsInstance(e, cls) ==
    CASE cls = "RuntimeError"      -> e = "RuntimeError"
      [] cls = "Exception"         -> e \in {"RuntimeError", "ValueError",
                                            "OSError", "OverflowError"}
      [] cls = "KeyboardInterrupt" -> e = "KeyboardInterrupt"

\* faulty variant: the "except Exception" clause left out
PlayHandlerRuntimeOnly(e) ==
    IF IsInstance(e, "RuntimeError")
    THEN [caught |-> TRUE, msgs |-> <<"error_winsound", "error_check_alias_file">>]
    ELSE [caught |-> FALSE, msgs |-> << >>]

\* faulty variant: a bare "except:" as the second clause, which also catches
\* KeyboardInterrupt
PlayHandlerBareExcept(e) ==
    IF IsInstance(e, "RuntimeError")
    THEN [caught |-> TRUE, msgs |-> <<"error_winsound", "error_check_alias_file">>]
    ELSE [caught |-> TRUE, msgs |-> <<"error_unexpected_playback">>]

\* lines 52-56: the except clauses of play_windows_notification
PlayHandler(e) ==
    IF IsInstance(e, "RuntimeError")
    THEN [caught |-> TRUE, msgs |-> <<"error_winsound", "error_check_alias_file">>]
    ELSE IF IsInstance(e, "Exception")
    THEN [caught |-> TRUE, msgs |-> <<"error_unexpected_playback">>]
    ELSE [caught |-> FALSE, msgs |-> << >>]

\* faulty variant: a bare "except:" as the first clause, so every exception is
\* reported as a stop by the user
TopHandlerBareExcept(e) == [caught |-> TRUE, msgs |-> <<"stopped_by_user">>]

\* lines 73-77: the except clauses of the main try
TopHandler(e) ==
    IF IsInstance(e, "KeyboardInterrupt")
    THEN [caught |-> TRUE, msgs |-> <<"stopped_by_user">>]
    ELSE IF IsInstance(e, "Exception")
    THEN [caught |-> TRUE, msgs |-> <<"unexpected_error", "error_details">>]
    ELSE [caught |-> FALSE, msgs |-> << >>]

\* faulty variant: no finally clause
FinallyNoMsgs == << >>

\* lines 78-79: the finally clause
FinallyMsgs == <<"exiting">>

\* exit status once the finally clause is done: the script falls off its
\* end (0) unless an exception is still propagating (1)
StatusAfterFinally(e) == IF e = "none" THEN 0 ELSE 1

\* lines 9, 34: sys.exit(1)
SysExitStatus == 1

\* faulty variant: the playback is tried again after a failure
AfterPlaybackFailureRetry == "dispatch"

\* lines 52-57, 67/71: once an except clause of play_windows_notification
\* has run, the function returns and the loop goes on with line 71
AfterPlaybackFailure == "wait_print"

\* lines 66, 72: while True, so the sleep is followed by the next call
AfterSleep == "play"

\* line 72: time.sleep(INTERVAL_SECONDS) suspends for that long
SleepTicks(x) == x.val

\* ---- the script ---------------------------------------------------------
Init ==
    /\ platform \in Platforms
    /\ INTERVAL_SECONDS \in IntervalValues
    /\ USE_ALIAS \in BOOLEAN
    /\ USE_WAV \in BOOLEAN
    /\ configured = FALSE
    /\ pc = "platform_check"
    /\ exc = "none"
    /\ caught = "none"
    /\ topCaught = 0
    /\ output = << >>
    /\ exitStatus = -1
    /\ clock = 0
    /\ starts = << >>
    /\ calls = << >>
    /\ outcomes = << >>
    /\ sleeps = 0

\* lines 7-12
PlatformCheck ==
    /\ pc = "platform_check"
    /\ IF ~Supported(platform)
       THEN /\ output' = Append(output, "platform_error")
            /\ exitStatus' = SysExitStatus
            /\ pc' = "exited"
       ELSE /\ pc' = "configure"
            /\ UNCHANGED <<output, exitStatus>>
    /\ UNCHANGED <<platform, config, configured, exc, caught, topCaught, clock,
                   starts, calls, outcomes, sleeps>>

\* lines 15-28
Configure ==
    /\ pc = "configure"
    /\ configured' = TRUE
    /\ pc' = "validate"
    /\ UNCHANGED <<platform, config, exc, caught, topCaught, output, exitStatus,
                   clock, starts, calls, outcomes, sleeps>>

\* lines 32-34
Validate ==
    /\ pc = "validate"
    /\ IF Invalid(INTERVAL_SECONDS)
       THEN /\ output' = Append(output, "config_error")
            /\ exitStatus' = SysExitStatus
            /\ pc' = "exited"
       ELSE /\ pc' = "banner"
            /\ UNCHANGED <<output, exitStatus>>
    /\ UNCHANGED <<platform, config, configured, exc, caught, topCaught, clock,
                   starts, calls, outcomes, sleeps>>

\* lines 59-65
Banner ==
    /\ pc = "banner"
    /\ output' = output \o <<"banner_started", "banner_interval",
                             "banner_ctrl_c", "banner_rule">>
    /\ pc' = "play"
    /\ UNCHANGED <<platform, config, configured, exc, caught, topCaught,
                   exitStatus, clock, starts, calls, outcomes, sleeps>>

\* lines 66-67, 38-41: the loop calls play_windows_notification, which
\* prints the timestamped "playing" line
PlayStart ==
    /\ pc = "play"
    /\ Len(starts) < MaxIter
    /\ output' = Append(output, "playing")
    /\ starts' = Append(starts, clock)
    /\ pc' = "dispatch"
    /\ UNCHANGED <<platform, config, configured, exc, caught, topCaught,
                   exitStatus, clock, calls, outcomes, sleeps>>

\* lines 42-56: status line, the sound primitive, and the except clauses.
\* res is how the primitive's call ended, t how long it took.
Dispatch ==
    /\ pc = "dispatch"
    /\ LET prim == SelectPrimitive(USE_ALIAS, USE_WAV) IN
       \E t \in PlayTicks(prim) :
       \E res \in {"ok", "KeyboardInterrupt"} \cup PlaybackErrors :
          /\ calls' = Append(calls, prim)
          /\ outcomes' = Append(outcomes, res)
          /\ clock' = clock + t
          /\ IF res = "ok"
             THEN /\ output' = Append(output, UsingLine(prim))
                  /\ pc' = "wait_print"
                  /\ UNCHANGED exc
             ELSE IF PlayHandler(res).caught
             THEN /\ output' = Append(output, UsingLine(prim)) \o PlayHandler(res).msgs
                  /\ pc' = AfterPlaybackFailure
                  /\ UNCHANGED exc
             ELSE /\ output' = Append(output, UsingLine(prim))
                  /\ pc' = "except"
                  /\ exc' = res
    /\ UNCHANGED <<platform, config, configured, caught, topCaught, exitStatus,
                   starts, sleeps>>

\* line 71
WaitPrint ==
    /\ pc = "wait_print"
    /\ \/ /\ output' = Append(output, "waiting")
          /\ pc' = "sleep"
          /\ UNCHANGED exc
       \/ /\ exc' = "OSError"
          /\ pc' = "except"
          /\ UNCHANGED output
    /\ UNCHANGED <<platform, config, configured, caught, topCaught, exitStatus,
                   clock, starts, calls, outcomes, sleeps>>

\* line 72
Sleep ==
    /\ pc = "sleep"
    /\ \/ /\ clock' = clock + SleepTicks(INTERVAL_SECONDS)
          /\ sleeps' = sleeps + 1
          /\ pc' = AfterSleep
          /\ UNCHANGED exc
       \/ /\ exc' = "OverflowError"
          /\ pc' = "except"
          /\ UNCHANGED <<clock, sleeps>>
    /\ UNCHANGED <<platform, config, configured, caught, topCaught, output,
                   exitStatus, starts, calls, outcomes>>

\* Ctrl-C between two statements of the loop or part-way through the sleep.
\* (Ctrl-C during the sound call is the KeyboardInterrupt result of Dispatch.)
\* At "dispatch" control is inside the try of play_windows_notification, so
\* its except clauses see the exception first.
Interrupt ==
    /\ pc \in LoopPcs
    /\ IF pc = "dispatch" /\ PlayHandler("KeyboardInterrupt").caught
       THEN /\ output' = output \o PlayHandler("KeyboardInterrupt").msgs
            /\ pc' = AfterPlaybackFailure
            /\ UNCHANGED exc
       ELSE /\ exc' = "KeyboardInterrupt"
            /\ pc' = "except"
            /\ UNCHANGED output
    /\ IF pc = "sleep"
       THEN \E d \in 0..(SleepTicks(INTERVAL_SECONDS) - 1) : clock' = clock + d
       ELSE UNCHANGED clock
    /\ UNCHANGED <<platform, config, configured, caught, topCaught, exitStatus,
                   starts, calls, outcomes, sleeps>>

\* lines 73-77
Except ==
    /\ pc = "except"
    /\ IF TopHandler(exc).caught
       THEN /\ output' = output \o TopHandler(exc).msgs
            /\ caught' = exc
            /\ topCaught' = topCaught + 1
            /\ exc' = "none"
       ELSE UNCHANGED <<output, caught, topCaught, exc>>
    /\ pc' = "finally"
    /\ UNCHANGED <<platform, config, configured, exitStatus, clock, starts,
                   calls, outcomes, sleeps>>

\* lines 78-79, then the end of the script
Finally ==
    /\ pc = "finally"
    /\ output' = output \o FinallyMsgs
    /\ exitStatus' = StatusAfterFinally(exc)
    /\ pc' = "exited"
    /\ UNCHANGED <<platform, config, configured, exc, caught, topCaught, clock,
                   starts, calls, outcomes, sleeps>>

Next ==
    \/ PlatformCheck
    \/ Configure
    \/ Validate
    \/ Banner
    \/ PlayStart
    \/ Dispatch
    \/ WaitPrint
    \/ Sleep
    \/ Interrupt
    \/ Except
    \/ Finally

Spec == Init /\ [][Next]_vars

TypeOK ==
    /\ pc \in {"platform_check", "configure", "validate", "banner"} \cup LoopPcs \cup DonePcs
    /\ exitStatus \in {-1, 0, 1}
    /\ (exitStatus # -1) <=> (pc = "exited")

\* ---- vocabulary of the properties ----------------------------------------
attempts == Len(starts)

waits == Count("waiting", output)

\* the console lines of the given kinds, in the order printed
Only(kinds) == SelectSeq(output, LAMBDA m : m \in kinds)

\* position in the output of the n-th line m
NthIndex(m, n) ==
    CHOOSE j \in 1..Len(output) :
        output[j] = m /\ Count(m, SubSeq(output, 1, j)) = n

\* the last n console lines
Ending(n) == SubSeq(output, Len(output) - n + 1, Len(output))

UsingLines == {"using_alias_SOUND_ALIAS", "using_wav_WAV_FILE",
               "using_beep_FREQUENCY_DURATION"}

TopLevelFailures == {"OSError", "OverflowError"}

\* once the loop has been left nothing more is played or announced
NothingAfterUnwind ==
    [][(pc \in DonePcs) =>
          (/\ pc' \in DonePcs
           /\ starts' = starts
           /\ calls' = calls
           /\ sleeps' = sleeps
           /\ Count("playing", output') = Count("playing", output)
           /\ Count("waiting", output') = Count("waiting", output))]_vars

\* ---- C1 ------------------------------------------------------------------
\* C1: with a valid configuration every iteration makes exactly one playback
\* attempt (one call of the sound primitive, no retry), which has ended in
\* success or in a logged failure before the one "waiting" line and the one
\* suspension of that iteration; "playing" and "waiting" lines alternate, and
\* the loop is left only with an exception in flight.
C1_OneAttemptPerIteration ==
    /\ \A i \in 1..Len(Only({"playing", "waiting"})) :
          Only({"playing", "waiting"})[i] = IF i % 2 = 1 THEN "playing" ELSE "waiting"
    /\ Len(outcomes) = Len(calls)
    /\ Len(Only(UsingLines)) = Len(calls)
    /\ pc \in LoopPcs => Supported(platform) /\ INTERVAL_SECONDS \in {Num(v) : v \in 1..MaxInterval}
    /\ pc = "play" => attempts = waits /\ sleeps = waits /\ Len(calls) = attempts
    /\ pc = "dispatch" => attempts = waits + 1 /\ sleeps = waits /\ Len(calls) = attempts - 1
    /\ pc = "wait_print" =>
          /\ attempts = waits + 1 /\ sleeps = waits /\ Len(calls) = attempts
          /\ Last(outcomes) \in {"ok"} \cup PlaybackErrors
          /\ Last(outcomes) = "ok" => Last(output) \in UsingLines
          /\ Last(outcomes) \in PlaybackErrors =>
                Last(output) \in {"error_check_alias_file", "error_unexpected_playback"}
    /\ pc = "sleep" => attempts = waits /\ sleeps = waits - 1 /\ Len(calls) = attempts
                       /\ Last(output) = "waiting"
    /\ pc \in DonePcs /\ Has("banner_started", output) => exc # "none" \/ caught # "none"

\* two full iterations have run, the first of them with a failed playback
C1_Witness ==
    /\ pc = "play" /\ attempts = 2 /\ sleeps = 2 /\ waits = 2
    /\ outcomes = <<"RuntimeError", "ok">>

\* ---- C2 ------------------------------------------------------------------
\* C2: an error raised by the sound primitive (in any mode) is caught inside
\* play_windows_notification: its failure message follows the status line of
\* that attempt, it never reaches the top-level handlers, and the iteration
\* goes on to the "waiting" line and the suspension, after which the next
\* attempt is made.
C2_FailureIsolation ==
    /\ exc \notin PlaybackErrors
    /\ caught \notin PlaybackErrors
    /\ \A i \in 1..Len(outcomes) :
          outcomes[i] \in PlaybackErrors =>
             /\ output[NthIndex("playing", i) + 1] = UsingLine(calls[i])
             /\ output[NthIndex("playing", i) + 2] \in
                   {"error_winsound", "error_unexpected_playback"}
             /\ i = Len(outcomes) /\ pc \notin DonePcs =>
                   \/ pc = "wait_print" /\ waits = i - 1
                   \/ pc = "sleep" /\ waits = i /\ sleeps = i - 1
                   \/ pc = "play" /\ waits = i /\ sleeps = i
                   \/ pc = "dispatch" /\ attempts = i + 1 /\ waits = i /\ sleeps = i
             /\ i < attempts => waits >= i /\ sleeps >= i
    /\ Count("error_winsound", output) = Count("RuntimeError", outcomes)
    /\ Count("error_check_alias_file", output) = Count("RuntimeError", outcomes)
    /\ Count("error_unexpected_playback", output) = Count("ValueError", outcomes)

\* playback failed in iteration 1, iteration 2 attempted again and failed
\* too, and the loop has gone through its second suspension
C2_Witness ==
    /\ outcomes = <<"RuntimeError", "ValueError">>
    /\ pc = "play"
    /\ sleeps = 2

\* ---- C3 ------------------------------------------------------------------
\* C3: Ctrl-C anywhere in the loop, the sound call included, goes straight to
\* the top-level KeyboardInterrupt clause (the playback handlers let it
\* pass): "stopped by user" and then "exiting" are the last two lines,
\* nothing is played or announced afterwards, and the exit status is 0.
C3_InterruptUnwinds ==
    /\ [](/\ exc = "KeyboardInterrupt" => pc = "except"
          /\ (outcomes # << >> /\ Last(outcomes) = "KeyboardInterrupt") =>
                pc \in DonePcs /\ "KeyboardInterrupt" \in {exc, caught}
          /\ caught = "KeyboardInterrupt" /\ pc = "finally" =>
                Last(output) = "stopped_by_user"
          /\ caught = "KeyboardInterrupt" /\ pc = "exited" =>
                /\ Ending(2) = <<"stopped_by_user", "exiting">>
                /\ Count("stopped_by_user", output) = 1
                /\ exitStatus = 0)
    /\ [][Interrupt => (pc' = "except" /\ exc' = "KeyboardInterrupt"
                        /\ output' = output)]_vars
    /\ NothingAfterUnwind

\* interrupted during the sound call of the second iteration, then exited
C3_Witness ==
    /\ pc = "exited"
    /\ caught = "KeyboardInterrupt"
    /\ outcomes = <<"ok", "KeyboardInterrupt">>
    /\ sleeps = 1

C5_PlatformCheckFirst ==
    platform # "Windows" =>
        /\ pc \in {"platform_check", "exited"}
        /\ ~configured
        /\ output \in {<< >>, <<"platform_error">>}
        /\ starts = << >> /\ calls = << >> /\ sleeps = 0
        /\ pc = "exited" => exitStatus # 0 /\ output = <<"platform_error">>

\* an invalid interval on an unsupported platform: only the platform error
C5_Witness ==
    /\ platform = "Linux"
    /\ INTERVAL_SECONDS = Num(-1)
    /\ pc = "exited"
    /\ output = <<"platform_error">>

\* ---- C6 ------------------------------------------------------------------
\* C6 as claimed: on every exit path the last console line is "exiting".
C6_ExitingOnEveryPath ==
    pc = "exited" => output # << >> /\ Last(output) = "exiting"

\* C6, amended: when the loop is left (user interrupt or unexpected
\* top-level failure) "exiting" is printed once, as the last console line;
\* on platform mismatch or invalid configuration the error line is the only
\* output and no "exiting" line is printed.
C6_ExitingAfterLoop ==
    pc = "exited" =>
        IF caught # "none"
        THEN Last(output) = "exiting" /\ Count("exiting", output) = 1
        ELSE output \in {<<"platform_error">>, <<"config_error">>}

\* the loop was left by a failing sleep and the process has ended
C6_Witness ==
    /\ pc = "exited"
    /\ caught = "OverflowError"
    /\ Last(output) = "exiting"

\* ---- C7 ------------------------------------------------------------------
\* C7: the exit status is non-zero on platform mismatch and on invalid
\* configuration, zero on a user interrupt, and non-zero on an unexpected
\* top-level failure.
C7_ExitStatusDistinguishes ==
    pc = "exited" =>
        /\ ~Supported(platform) => exitStatus # 0
        /\ Supported(platform) /\ Invalid(INTERVAL_SECONDS) => exitStatus # 0
        /\ caught = "KeyboardInterrupt" => exitStatus = 0
        /\ caught \in TopLevelFailures => exitStatus # 0

\* ---- C8 ------------------------------------------------------------------
\* C8: the time from the start of one playback attempt to the start of the
\* next is INTERVAL_SECONDS, whatever the sound mode.
C8_IntervalBetweenStarts ==
    \A i \in 1..(Len(starts) - 1) :
        starts[i + 1] - starts[i] = INTERVAL_SECONDS.val

\* ---- C9 ------------------------------------------------------------------
\* C9: a failure of the "waiting" print or of the sleep is caught once by
\* the top-level Exception clause: its two lines are printed, "stopped by
\* user" is not, nothing is played or announced afterwards, and "exiting" is
\* printed before the process ends.
C9_UnexpectedFailure ==
    /\ [](/\ topCaught <= 1
          /\ exc \in TopLevelFailures => pc = "except" /\ topCaught = 0
          /\ caught \in TopLevelFailures =>
                /\ topCaught = 1
                /\ ~Has("stopped_by_user", output)
                /\ Count("unexpected_error", output) = 1
                /\ Count("error_details", output) = 1
                /\ pc = "finally" => Ending(2) = <<"unexpected_error", "error_details">>
                /\ pc = "exited" =>
                      Ending(3) = <<"unexpected_error", "error_details", "exiting">>)
    /\ NothingAfterUnwind

\* the "waiting" print of the second iteration failed and the process ended
C9_Witness ==
    /\ pc = "exited"
    /\ caught = "OSError"
    /\ attempts = 2
    /\ waits = 1

\* ---- C10 -----------------------------------------------------------------
\* C10: every attempt invokes the primitive fixed by the configuration --
\* the alias if USE_ALIAS (whatever USE_WAV), else the wave file if USE_WAV,
\* else the tone -- its status line names that resource, the wave-file call
\* returns at once, and no step changes the configuration.
C10_StaticSoundMode ==
    /\ [](\A i \in 1..Len(calls) :
             /\ USE_ALIAS => calls[i] = "alias"
             /\ ~USE_ALIAS /\ USE_WAV => calls[i] = "wav"
             /\ ~USE_ALIAS /\ ~USE_WAV => calls[i] = "beep"
             /\ calls[i] = "alias" => Only(UsingLines)[i] = "using_alias_SOUND_ALIAS"
             /\ calls[i] = "wav" => Only(UsingLines)[i] = "using_wav_WAV_FILE"
             /\ calls[i] = "beep" => Only(UsingLines)[i] = "using_beep_FREQUENCY_DURATION")
    /\ [][config' = config]_vars
    /\ [][Len(calls') > Len(calls) /\ Last(calls') = "wav" => clock' = clock]_vars

\* the alias was used in both iterations although USE_WAV is set too
C10_Witness ==
    /\ USE_ALIAS /\ USE_WAV
    /\ calls = <<"alias", "alias">>
    /\ pc = "sleep"

====
